---- MODULE Spec2Model ----
(***************************************************************************)
(* The framework-manager workflow of main.py: the /query endpoint of       *)
(* api.py runs the LangGraph graph initialize -> select_next_agent ->      *)
(* (process_with_agent -> select_next_agent)* -> finalize -> END over a     *)
(* ManagerState, calling the selection model, the three agent endpoints     *)
(* (agents.py) and the aggregation model.                                   *)
(*                                                                         *)
(* Strings are atoms; a text that the code builds by concatenation is a    *)
(* sequence of atoms, so that "+" on str is \o and "" is << >>.             *)
(***************************************************************************)
EXTENDS Integers, Sequences, FiniteSets, TLC

\* Longest 'agents' list the selection model's reply carries.
MaxEntries == 3

\* Python's None, and a key that a JSON object does not have.
None == "<None>"
Missing == "<missing>"
\* A JSON value that is not hashable (a list or an object).
Unhashable == "<unhashable>"

\* models.py
AgentType == {"elizaos", "tron", "goose"}
PENDING == "pending"
IN_PROGRESS == "in_progress"
COMPLETED == "completed"
FAILED == "failed"
TaskStatus == {PENDING, IN_PROGRESS, COMPLETED, FAILED}

AgentTask(agent_type, query) ==
  [agent_type |-> agent_type, query |-> query, status |-> PENDING,
   response |-> None, error |-> None]

\* The queries a caller sends.
Queries == {"q"}

HumanMessage(content) == [type |-> "human", content |-> content]
AIMessage(content) == [type |-> "ai", content |-> content]

(***************************************************************************)
(* The selection model.  chain.invoke either raises (the model call fails, *)
(* or its text is not JSON and the fixing parser gives up) or returns the  *)
(* parsed JSON value: not an object, an object without 'agents', or an     *)
(* object whose 'agents' is a list of entries.  JsonOutputParser returns    *)
(* plain dicts, so an entry may lack a key and its agent_type may be any    *)
(* JSON value.                                                              *)
(***************************************************************************)
UnknownAgent == "langchain"
EntryAgentTypes == AgentType \cup {UnknownAgent, Missing, Unhashable}
EntryNeeded == {"true", "false", Missing}
Entries == [agent_type : EntryAgentTypes, needed : EntryNeeded]

SeqsUpTo(S, n) == UNION {[1..k -> S] : k \in 0..n}

SelectionReplies ==
  {[kind |-> k, agents |-> << >>] : k \in {"raise", "not_object", "no_agents_key"}}
    \cup {[kind |-> "agents", agents |-> s] : s \in SeqsUpTo(Entries, MaxEntries)}

NoReply == [kind |-> "consumed", agents |-> << >>]

\* The set comprehension of determine_required_agents, entry by entry:
\* agent['needed'] is read first, agent['agent_type'] only when it is truthy.
RECURSIVE CollectNeeded(_, _)
CollectNeeded(agents_list, acc) ==
  IF agents_list = << >> THEN [ok |-> TRUE, agents |-> acc]
  ELSE LET agent == Head(agents_list) IN
       IF agent.needed = Missing THEN [ok |-> FALSE, agents |-> {}]
       ELSE IF agent.needed = "false" THEN CollectNeeded(Tail(agents_list), acc)
       ELSE IF agent.agent_type \in {Missing, Unhashable} THEN [ok |-> FALSE, agents |-> {}]
       ELSE CollectNeeded(Tail(agents_list), acc \cup {agent.agent_type})

\* TRUE when the try block of determine_required_agents raises.
SelectionRaises(reply) ==
  \/ reply.kind # "agents"
  \/ ~CollectNeeded(reply.agents, {}).ok

\* A fallback that selects no agent instead of every agent.
DetermineRequiredAgentsNoFallback(reply) ==
  IF SelectionRaises(reply) THEN {}
  ELSE CollectNeeded(reply.agents, {}).agents

DetermineRequiredAgents(reply) ==
  IF SelectionRaises(reply) THEN AgentType
  ELSE CollectNeeded(reply.agents, {}).agents

\* The orders in which a for loop may iterate over a set.
Orderings(S) ==
  {s \in [1..Cardinality(S) -> S] : \A i, j \in 1..Cardinality(S) : i # j => s[i] # s[j]}

(***************************************************************************)
(* LangGraph channels: messages and final_output are Annotated with        *)
(* operator.add, every other key keeps the last value written.  A node's    *)
(* return value is a partial state; only the keys it has are written.       *)
(***************************************************************************)
ApplyUpdate(old, update) ==
  [original_query |-> IF "original_query" \in DOMAIN update
                      THEN update.original_query ELSE old.original_query,
   tasks |-> IF "tasks" \in DOMAIN update THEN update.tasks ELSE old.tasks,
   required_agents |-> IF "required_agents" \in DOMAIN update
                       THEN update.required_agents ELSE old.required_agents,
   current_agent |-> IF "current_agent" \in DOMAIN update
                     THEN update.current_agent ELSE old.current_agent,
   messages |-> IF "messages" \in DOMAIN update
                THEN old.messages \o update.messages ELSE old.messages,
   final_output |-> IF "final_output" \in DOMAIN update
                    THEN old.final_output \o update.final_output ELSE old.final_output]

\* The channels before the input of graph.invoke is written.
EmptyChannels ==
  [original_query |-> None, tasks |-> << >>, required_agents |-> {},
   current_agent |-> None, messages |-> << >>, final_output |-> << >>]

\* An initial state whose final_output holds a placeholder text.
initial_state_placeholder(query) ==
  [original_query |-> query, messages |-> <<HumanMessage(<<query>>)>>,
   tasks |-> << >>, required_agents |-> {}, current_agent |-> None,
   final_output |-> <<"Processing...">>]

initial_state(query) ==
  [original_query |-> query, messages |-> <<HumanMessage(<<query>>)>>,
   tasks |-> << >>, required_agents |-> {}, current_agent |-> None,
   final_output |-> << >>]

(***************************************************************************)
(* agents.py.  requests.post either raises (connection refused, timeout,   *)
(* too many redirects) or returns a response.  http.client gives a 1xx      *)
(* response a zero-length body, so its text is never JSON; a 3xx response   *)
(* is returned as it is when it is not a redirect to follow (300, or no     *)
(* Location header).                                                        *)
(***************************************************************************)
Results == {"r1", "r2", None}
Bodies ==
  {[kind |-> "not_json", result |-> None], [kind |-> "no_result", result |-> None]}
    \cup {[kind |-> "result", result |-> r] : r \in Results}
EmptyBody == [kind |-> "not_json", result |-> None]
FreeBodyStatusCodes == {200, 300, 404, 500}

HttpOutcomes ==
  {[kind |-> "exception", status_code |-> 0, body |-> EmptyBody]}
    \cup {[kind |-> "response", status_code |-> 101, body |-> EmptyBody]}
    \cup {[kind |-> "response", status_code |-> c, body |-> b] :
            c \in FreeBodyStatusCodes, b \in Bodies}

\* A status check that only rejects server errors.
RaisesForStatusServerOnly(status_code) == 500 <= status_code /\ status_code < 600

\* response.raise_for_status()
RaisesForStatus(status_code) == 400 <= status_code /\ status_code < 600

HTTPErrorStr(status_code) ==
  IF status_code < 500 THEN "4xx Client Error" ELSE "5xx Server Error"

Success(result) == [success |-> TRUE, result |-> result, error |-> None]
Failure(error) == [success |-> FALSE, result |-> None, error |-> error]

\* A process that reads the body with .get("result"), so that a JSON body
\* without the key yields None instead of raising KeyError.
BaseAgentProcessGet(outcome) ==
  IF outcome.kind = "exception" THEN Failure("ConnectionError")
  ELSE IF RaisesForStatus(outcome.status_code)
       THEN Failure(HTTPErrorStr(outcome.status_code))
  ELSE IF outcome.body.kind = "not_json" THEN Failure("JSONDecodeError")
  ELSE Success(outcome.body.result)

\* BaseAgent.process: what it returns for an outcome of requests.post.
BaseAgentProcess(outcome) ==
  IF outcome.kind = "exception" THEN Failure("ConnectionError")
  ELSE IF RaisesForStatus(outcome.status_code)
       THEN Failure(HTTPErrorStr(outcome.status_code))
  ELSE IF outcome.body.kind = "not_json" THEN Failure("JSONDecodeError")
  ELSE IF outcome.body.kind = "no_result" THEN Failure("'result'")
  ELSE Success(outcome.body.result)

NoDispatch ==
  [agent_type |-> None,
   outcome |-> [kind |-> "none", status_code |-> 0, body |-> EmptyBody],
   result |-> Failure(None)]

(***************************************************************************)
(* The graph nodes of create_framework_manager_graph.                      *)
(***************************************************************************)
\* A selection that also picks up failed tasks again.
IsPendingOrFailed(task) == task.status \in {PENDING, FAILED}

IsPending(task) == task.status = PENDING

\* A search that ends on the last pending task instead of the first.
LastPendingIndex(tasks) ==
  IF \E i \in 1..Len(tasks) : IsPending(tasks[i])
  THEN CHOOSE i \in 1..Len(tasks) :
         IsPending(tasks[i]) /\ \A j \in (i + 1)..Len(tasks) : ~IsPending(tasks[j])
  ELSE 0

\* Index of the first pending task, 0 when there is none.
FirstPendingIndex(tasks) ==
  IF \E i \in 1..Len(tasks) : IsPending(tasks[i])
  THEN CHOOSE i \in 1..Len(tasks) :
         IsPending(tasks[i]) /\ \A j \in 1..(i - 1) : ~IsPending(tasks[j])
  ELSE 0

\* next(task for task in tasks if task.agent_type == agent_type): the index
\* of the first task of that type, 0 when next raises StopIteration.
FirstIndexOfType(tasks, agent_type) ==
  IF \E i \in 1..Len(tasks) : tasks[i].agent_type = agent_type
  THEN CHOOSE i \in 1..Len(tasks) :
         /\ tasks[i].agent_type = agent_type
         /\ \A j \in 1..(i - 1) : tasks[j].agent_type # agent_type
  ELSE 0

\* A selection that takes the first task whatever its status.
SelectNextAgentFirstTask(tasks) ==
  IF tasks = << >> THEN None ELSE tasks[1].agent_type

\* select_next_agent: the agent of the first pending task, or None.
SelectNextAgent(tasks) ==
  IF FirstPendingIndex(tasks) = 0 THEN None
  ELSE tasks[FirstPendingIndex(tasks)].agent_type

\* A routing that finishes as soon as some task is no longer pending.
should_continue_any(st) ==
  IF \E i \in 1..Len(st.tasks) : st.tasks[i].status # PENDING
  THEN "finish" ELSE "continue"

should_continue(st) ==
  IF st.current_agent = None /\ \A i \in 1..Len(st.tasks) : st.tasks[i].status # PENDING
  THEN "finish" ELSE "continue"

\* A recording that leaves a failed attempt in progress.
RecordResultInProgress(task, result) ==
  IF result.success
  THEN [task EXCEPT !.response = result.result, !.status = COMPLETED]
  ELSE [task EXCEPT !.error = result.error, !.status = IN_PROGRESS]

\* A recording that marks the task completed on both branches.
RecordResultAlwaysCompleted(task, result) ==
  IF result.success
  THEN [task EXCEPT !.response = result.result, !.status = COMPLETED]
  ELSE [task EXCEPT !.error = result.error, !.status = COMPLETED]

\* The branch of process_with_agent that writes the outcome into the task.
RecordResult(task, result) ==
  IF result.success
  THEN [task EXCEPT !.response = result.result, !.status = COMPLETED]
  ELSE [task EXCEPT !.error = result.error, !.status = FAILED]

\* f"{task.agent_type.upper()} AGENT:\n{task.response}"
Upper(agent_type) ==
  CASE agent_type = "elizaos" -> "ELIZAOS"
    [] agent_type = "tron" -> "TRON"
    [] agent_type = "goose" -> "GOOSE"

\* str() of an Optional[str] inside an f-string.
Str(value) == IF value = None THEN "None" ELSE value

AgentSection(task) == <<Upper(task.agent_type), " AGENT:\n", Str(task.response)>>

\* A filter that takes a failed task for a completed one.
IsCompletedOrFailed(task) == task.status \in {COMPLETED, FAILED}

\* A filter that keeps every task that was attempted.
IsNotPending(task) == task.status # PENDING

IsCompleted(task) == task.status = COMPLETED

RECURSIVE Join(_, _)
Join(sep, parts) ==
  IF parts = << >> THEN << >>
  ELSE IF Len(parts) = 1 THEN Head(parts)
  ELSE Head(parts) \o <<sep>> \o Join(sep, Tail(parts))

\* The agent_responses text that aggregate_responses puts into the prompt.
AgentResponses(completed_tasks) ==
  LET kept == SelectSeq(completed_tasks, IsCompleted) IN
    Join("\n\n", [i \in 1..Len(kept) |-> AgentSection(kept[i])])

\* What the aggregation model call does: raise, or return a text.
AggregatorOutcomes ==
  {[kind |-> "raise", content |-> << >>]}
    \cup {[kind |-> "content", content |-> <<c>>] : c \in {"prose1", "prose2"}}

AllFailedText == <<"Unable to provide a response as all specialized agents encountered errors.">>

NoResponse == [status_code |-> 0, result_type |-> None, result |-> None]

\* workflow.add_node(...)
Nodes == {"initialize", "select_next_agent", "process_with_agent", "finalize"}

VARIABLES
  pc,               \* the node the graph runs next, END, crashed or responded
  state,            \* the ManagerState held in the graph's channels
  selection_reply,  \* what the selection model answers for this query
  warned,           \* "Warning: Failed to parse agent requirements" was printed
  dispatch_count,   \* per agent type, the requests.post calls made to it
  last_dispatch,    \* the latest requests.post: agent, outcome, what process returned
  aggregator_calls, \* the inputs of the aggregation chain's invocations
  api_response,     \* what POST /query answers
  executions        \* per node, the times the graph runner has run it

vars == <<pc, state, selection_reply, warned, dispatch_count, last_dispatch,
          aggregator_calls, api_response, executions>>

Init ==
  /\ pc = "initialize"
  /\ \E query \in Queries : state = ApplyUpdate(EmptyChannels, initial_state(query))
  /\ selection_reply \in SelectionReplies
  /\ warned = FALSE
  /\ dispatch_count = [a \in AgentType |-> 0]
  /\ last_dispatch = NoDispatch
  /\ aggregator_calls = << >>
  /\ api_response = NoResponse
  /\ executions = [n \in Nodes |-> 0]

\* Node initialize.  AgentTask(agent_type=...) validates agent_type against
\* the AgentType enum and raises ValidationError for any other string; the
\* node has no handler for it.
initialize ==
  /\ pc = "initialize"
  /\ executions' = [executions EXCEPT !["initialize"] = @ + 1]
  /\ LET required_agents == DetermineRequiredAgents(selection_reply) IN
       IF required_agents \subseteq AgentType
       THEN \E order \in Orderings(required_agents) :
              /\ state' = ApplyUpdate(state,
                            [state EXCEPT
                               !.tasks = [i \in 1..Len(order) |->
                                            AgentTask(order[i], state.original_query)],
                               !.required_agents = required_agents,
                               !.current_agent = None])
              /\ pc' = "select_next_agent"
       ELSE /\ pc' = "crashed"
            /\ UNCHANGED state
  /\ warned' = SelectionRaises(selection_reply)
  /\ selection_reply' = NoReply
  /\ UNCHANGED <<dispatch_count, last_dispatch, aggregator_calls, api_response>>

\* Node select_next_agent and its conditional edge should_continue.
select_next_agent ==
  /\ pc = "select_next_agent"
  /\ executions' = [executions EXCEPT !["select_next_agent"] = @ + 1]
  /\ state' = ApplyUpdate(state,
                [state EXCEPT !.current_agent = SelectNextAgent(state.tasks)])
  /\ pc' = IF should_continue(state') = "finish" THEN "finalize"
           ELSE "process_with_agent"
  /\ UNCHANGED <<selection_reply, warned, dispatch_count, last_dispatch,
                 aggregator_calls, api_response>>

\* Node process_with_agent.  next(...) over the tasks raises StopIteration
\* when no task has the current agent's type.
process_with_agent ==
  /\ pc = "process_with_agent"
  /\ executions' = [executions EXCEPT !["process_with_agent"] = @ + 1]
  /\ IF state.current_agent = None
     THEN /\ state' = ApplyUpdate(state, state)
          /\ pc' = "select_next_agent"
          /\ UNCHANGED <<dispatch_count, last_dispatch>>
     ELSE LET k == FirstIndexOfType(state.tasks, state.current_agent)
          IN IF k = 0
             THEN /\ pc' = "crashed"
                  /\ UNCHANGED <<state, dispatch_count, last_dispatch>>
             ELSE \E outcome \in HttpOutcomes :
                    LET result == BaseAgentProcess(outcome)
                        current_task == RecordResult(state.tasks[k], result)
                        updated_tasks ==
                          [i \in 1..Len(state.tasks) |->
                             IF state.tasks[i].agent_type # current_task.agent_type
                             THEN state.tasks[i] ELSE current_task]
                    IN /\ state' = ApplyUpdate(state, [state EXCEPT !.tasks = updated_tasks])
                       /\ dispatch_count' =
                            [dispatch_count EXCEPT ![current_task.agent_type] = @ + 1]
                       /\ last_dispatch' =
                            [agent_type |-> current_task.agent_type, outcome |-> outcome,
                             result |-> result]
                       /\ pc' = "select_next_agent"
  /\ UNCHANGED <<selection_reply, warned, aggregator_calls, api_response>>

\* Node finalize, followed by the edge to END.  aggregate_responses has no
\* handler around the aggregation chain, so its exception leaves the graph.
finalize ==
  /\ pc = "finalize"
  /\ executions' = [executions EXCEPT !["finalize"] = @ + 1]
  /\ LET completed_tasks == SelectSeq(state.tasks, IsCompleted) IN
       IF completed_tasks = << >>
       THEN /\ state' = ApplyUpdate(state,
                          [final_output |-> AllFailedText,
                           messages |-> <<AIMessage(<<"Query processed. Here's the answer:\n\n">>
                                                      \o AllFailedText)>>])
            /\ pc' = "END"
            /\ UNCHANGED aggregator_calls
       ELSE \E out \in AggregatorOutcomes :
              /\ aggregator_calls' =
                   Append(aggregator_calls,
                          [query |-> state.original_query,
                           agent_responses |-> AgentResponses(completed_tasks)])
              /\ IF out.kind = "raise"
                 THEN /\ pc' = "crashed"
                      /\ UNCHANGED state
                 ELSE /\ state' = ApplyUpdate(state,
                                    [final_output |-> out.content,
                                     messages |-> <<AIMessage(<<"Query processed. Here's the answer:\n\n">>
                                                                \o out.content)>>])
                      /\ pc' = "END"
  /\ UNCHANGED <<selection_reply, warned, dispatch_count, last_dispatch, api_response>>

\* api.py: get_items puts the value of query_manager_agent, the final state
\* that graph.invoke returns, under "result"; an exception that leaves the
\* handler is answered with 500.
get_items ==
  /\ pc \in {"END", "crashed"}
  /\ api_response' =
       IF pc = "END"
       THEN [status_code |-> 200, result_type |-> "dict", result |-> state]
       ELSE [status_code |-> 500, result_type |-> None, result |-> None]
  /\ pc' = "responded"
  /\ UNCHANGED <<state, selection_reply, warned, dispatch_count, last_dispatch,
                 aggregator_calls, executions>>

Next ==
  \/ initialize
  \/ select_next_agent
  \/ process_with_agent
  \/ finalize
  \/ get_items

Spec == Init /\ [][Next]_vars

(***************************************************************************)
(* Properties.                                                             *)
(***************************************************************************)
TaskIndexes == 1..Len(state.tasks)

\* The task of the agent the latest request went to.
DispatchedTask ==
  state.tasks[CHOOSE i \in TaskIndexes : state.tasks[i].agent_type = last_dispatch.agent_type]

Dispatched == last_dispatch.agent_type # None
LastStatus == last_dispatch.outcome.status_code

\* C1: a task's status changes at most once, from pending to completed or to
\* failed, and a completed or failed task never changes again; the list keeps
\* its tasks and their order once it holds any.
TaskTransitionsOnce ==
  [][\A i \in TaskIndexes :
       /\ Len(state'.tasks) = Len(state.tasks)
       /\ state'.tasks[i].agent_type = state.tasks[i].agent_type
       /\ state.tasks[i].status \in {PENDING, COMPLETED, FAILED}
       /\ state.tasks[i].status = PENDING
            => state'.tasks[i].status \in {PENDING, COMPLETED, FAILED}
       /\ state.tasks[i].status # PENDING => state'.tasks[i] = state.tasks[i]]_vars

\* A run that completed its first task, failed its second and went on.
TaskTransitionsOnceWitness ==
  /\ pc = "END"
  /\ Len(state.tasks) = 3
  /\ state.tasks[1].status = COMPLETED
  /\ state.tasks[2].status = FAILED
  /\ state.tasks[3].status = COMPLETED

\* C2: after a request that was answered with a 4xx or 5xx status, whatever
\* the body, process returned success=False with an error string and the
\* agent's task is failed, holds that error string and has no response.
HttpErrorFailsTask ==
  (Dispatched /\ last_dispatch.outcome.kind = "response"
     /\ LastStatus >= 400 /\ LastStatus <= 599)
    => /\ last_dispatch.result.success = FALSE
       /\ last_dispatch.result.error \in {"4xx Client Error", "5xx Server Error"}
       /\ DispatchedTask.status = FAILED
       /\ DispatchedTask.error = last_dispatch.result.error
       /\ DispatchedTask.response = None

\* A 404 whose body is well-formed JSON with a result.
HttpErrorFailsTaskWitness ==
  /\ Dispatched
  /\ LastStatus = 404
  /\ last_dispatch.outcome.body = [kind |-> "result", result |-> "r1"]
  /\ DispatchedTask.status = FAILED

Unparseable(reply) ==
  \/ reply.kind \in {"raise", "not_object", "no_agents_key"}
  \/ /\ reply.kind = "agents"
     /\ \E i \in 1..Len(reply.agents) :
          \/ reply.agents[i].needed = Missing
          \/ reply.agents[i].needed = "true" /\ reply.agents[i].agent_type = Missing

\* C4: when the selection call raises or its output cannot be parsed,
\* initialize gets all three agent types and makes one pending task for each.
FallbackSelectsAll ==
  [][(pc = "initialize" /\ Unparseable(selection_reply))
       => /\ pc' = "select_next_agent"
          /\ state'.required_agents = {"elizaos", "tron", "goose"}
          /\ Len(state'.tasks) = 3
          /\ \A a \in {"elizaos", "tron", "goose"} :
               \E i \in 1..Len(state'.tasks) :
                 /\ state'.tasks[i].agent_type = a
                 /\ state'.tasks[i].status = PENDING]_vars

\* The fallback was taken and the three tasks are waiting.
FallbackSelectsAllWitness ==
  /\ warned
  /\ pc = "select_next_agent"
  /\ Len(state.tasks) = 3
  /\ \A i \in TaskIndexes : state.tasks[i].status = PENDING

\* C5: no exception leaves the workflow; every query is answered from END.
NoFailureAborts ==
  /\ pc # "crashed"
  /\ pc = "responded" => api_response.status_code = 200

\* C6: every agent is sent at most one request, exactly the attempted tasks'
\* agents were sent one, and once the loop is over every task's agent was sent
\* exactly one, failed tasks included.
OneRequestPerTask ==
  /\ \A a \in AgentType :
       /\ dispatch_count[a] <= 1
       /\ dispatch_count[a] = 1
            <=> \E i \in TaskIndexes :
                  state.tasks[i].agent_type = a /\ state.tasks[i].status # PENDING
  /\ pc \notin {"initialize", "select_next_agent", "process_with_agent"}
       => \A i \in TaskIndexes : dispatch_count[state.tasks[i].agent_type] = 1

\* A finished run whose first agent failed and whose later agents were
\* still dispatched.
OneRequestPerTaskWitness ==
  /\ pc = "END"
  /\ Len(state.tasks) = 3
  /\ state.tasks[1].status = FAILED
  /\ state.tasks[2].status = COMPLETED
  /\ state.tasks[3].status = FAILED
  /\ \A a \in AgentType : dispatch_count[a] = 1

\* C7: finalize, and so the aggregation call, happens only when no task is
\* pending and every task's agent was attempted; process_with_agent is the
\* next node exactly while some task is pending.
FinalizeOnlyWhenNoPending ==
  /\ (pc \in {"finalize", "END"} \/ aggregator_calls # << >>)
       => \A i \in TaskIndexes :
            /\ state.tasks[i].status \in {COMPLETED, FAILED}
            /\ dispatch_count[state.tasks[i].agent_type] >= 1
  /\ pc = "process_with_agent"
       <=> (pc \in {"process_with_agent", "finalize"}
              /\ \E i \in TaskIndexes : state.tasks[i].status = PENDING)

\* finalize is about to run after two agents were attempted.
FinalizeOnlyWhenNoPendingWitness ==
  /\ pc = "finalize"
  /\ Len(state.tasks) = 2
  /\ \A i \in TaskIndexes : state.tasks[i].status # PENDING

\* The completed tasks' positions in the task list, in order.
CompletedIndexes == {i \in TaskIndexes : state.tasks[i].status = COMPLETED}
NthCompleted(k) ==
  CHOOSE i \in CompletedIndexes :
    Cardinality({j \in CompletedIndexes : j <= i}) = k
Heading == [elizaos |-> "ELIZAOS", tron |-> "TRON", goose |-> "GOOSE"]
AtomsOf(text) == {text[i] : i \in 1..Len(text)}

\* C8: the text given to the aggregation model has one section per completed
\* task, in task-list order, made of the agent's heading and that task's
\* response, sections separated by a blank line; no completed task is left
\* out and no failed task's error text appears.
AggregationTextIsCompletedTasks ==
  aggregator_calls # << >> =>
    LET text == aggregator_calls[1].agent_responses
        n == Cardinality(CompletedIndexes)
    IN /\ n >= 1
       /\ Len(text) = 4 * n - 1
       /\ \A k \in 1..n :
            LET task == state.tasks[NthCompleted(k)] IN
              /\ text[4 * k - 3] = Heading[task.agent_type]
              /\ text[4 * k - 2] = " AGENT:\n"
              /\ text[4 * k - 1] = IF task.response = None THEN "None" ELSE task.response
              /\ k < n => text[4 * k] = "\n\n"
       /\ \A i \in TaskIndexes :
            state.tasks[i].status = FAILED => state.tasks[i].error \notin AtomsOf(text)

\* The aggregation was called for a failed task between two completed ones
\* with different responses.
AggregationTextIsCompletedTasksWitness ==
  /\ aggregator_calls # << >>
  /\ Len(state.tasks) = 3
  /\ state.tasks[1].status = COMPLETED /\ state.tasks[1].response = "r2"
  /\ state.tasks[2].status = FAILED
  /\ state.tasks[3].status = COMPLETED /\ state.tasks[3].response = "r1"

\* C9: what /query answers under "result" is the final_output string.
ResultIsFinalOutput ==
  (pc = "responded" /\ api_response.status_code = 200)
    => /\ api_response.result_type = "str"
       /\ api_response.result = state.final_output

\* The verdicts that parse: a list of entries that each say whether the agent
\* is needed and, when needed, name the agent.
VerdictParses(reply) ==
  /\ reply.kind = "agents"
  /\ \A i \in 1..Len(reply.agents) :
       /\ reply.agents[i].needed \in {"true", "false"}
       /\ reply.agents[i].needed = "true"
            => reply.agents[i].agent_type \notin {Missing, Unhashable}
MarkedNeeded(reply) ==
  {reply.agents[i].agent_type :
     i \in {j \in 1..Len(reply.agents) : reply.agents[j].needed = "true"}}

\* C10: when the verdict parses, initialize leaves exactly one pending task
\* for each agent that the verdict marks needed and no other task: no two
\* tasks of one agent type, at most three tasks, and required_agents is the
\* set of the tasks' agent types.
TasksMatchVerdict ==
  [][(pc = "initialize" /\ VerdictParses(selection_reply))
       => LET tasks == state'.tasks
              types == {tasks[i].agent_type : i \in 1..Len(tasks)}
          IN /\ \A a \in MarkedNeeded(selection_reply) :
                  Cardinality({i \in 1..Len(tasks) :
                                 tasks[i].agent_type = a /\ tasks[i].status = PENDING}) = 1
             /\ types \subseteq MarkedNeeded(selection_reply)
             /\ Cardinality(types) = Len(tasks)
             /\ Len(tasks) <= 3
             /\ state'.required_agents = types]_vars

\* The steps the graph runner allows one invocation by default.
RecursionLimit == 25

\* The number of requests sent so far.
Dispatches == dispatch_count["elizaos"] + dispatch_count["tron"] + dispatch_count["goose"]
Steps ==
  executions["initialize"] + executions["select_next_agent"]
    + executions["process_with_agent"] + executions["finalize"]

\* C11: every run stays within the step limit and, once it is over, it has
\* reached END with initialize and finalize run once, process_with_agent once
\* per task and select_next_agent once more than that.
RunReachesEnd ==
  /\ Steps <= RecursionLimit
  /\ pc \notin Nodes
       => /\ pc \in {"END", "responded"}
          /\ pc = "responded" => api_response.status_code = 200
          /\ executions["initialize"] = 1
          /\ executions["finalize"] = 1
          /\ executions["process_with_agent"] = Len(state.tasks)
          /\ executions["select_next_agent"] = Len(state.tasks) + 1

SomeCompleted == \E i \in TaskIndexes : state.tasks[i].status = COMPLETED

\* C12: the aggregation model is called at most once and only with a
\* completed task; once finalize has run it was called exactly once if some
\* task is completed, and otherwise not at all and final_output is the fixed
\* text.
AggregationCalledIffCompleted ==
  /\ Len(aggregator_calls) <= 1
  /\ aggregator_calls # << >> => SomeCompleted
  /\ executions["finalize"] >= 1
       => IF SomeCompleted
          THEN Len(aggregator_calls) = 1
          ELSE /\ aggregator_calls = << >>
               /\ state.final_output =
                    <<"Unable to provide a response as all specialized agents encountered errors.">>

\* A run that ended with both of its agents failed.
AggregationCalledIffCompletedWitness ==
  /\ pc = "END"
  /\ Len(state.tasks) = 2
  /\ \A i \in TaskIndexes : state.tasks[i].status = FAILED
  /\ aggregator_calls = << >>

\* C13: after a request answered with a 2xx status, the agent's task is
\* completed with the body's result as its response when the body is JSON
\* with a result key, and failed with an error string and no response when
\* the body is not JSON or has no result key.
OkResponseCompletesIffResult ==
  (Dispatched /\ last_dispatch.outcome.kind = "response"
     /\ LastStatus >= 200 /\ LastStatus <= 299)
    => IF last_dispatch.outcome.body.kind = "result"
       THEN /\ DispatchedTask.status = COMPLETED
            /\ DispatchedTask.response = last_dispatch.outcome.body.result
            /\ DispatchedTask.error = None
       ELSE /\ DispatchedTask.status = FAILED
            /\ DispatchedTask.error # None
            /\ DispatchedTask.response = None

\* A 200 whose JSON body has no result key.
OkResponseCompletesIffResultWitness ==
  /\ Dispatched
  /\ LastStatus = 200
  /\ last_dispatch.outcome.body.kind = "no_result"
  /\ DispatchedTask.status = FAILED

AnswerPrefix == "Query processed. Here's the answer:\n\n"

\* C14: until finalize the message list is the human query message alone,
\* and at END it is that message followed by the one AI message that holds
\* final_output.
MessagesAreQueryThenAnswer ==
  /\ pc \in Nodes => state.messages = <<[type |-> "human", content |-> <<state.original_query>>]>>
  /\ pc = "END"
       => state.messages =
            <<[type |-> "human", content |-> <<state.original_query>>],
              [type |-> "ai", content |-> <<AnswerPrefix>> \o state.final_output]>>

\* C15: requests go out one at a time in task-list order: the tasks attempted
\* so far are the first ones of the list, the latest request went to the last
\* of them, process_with_agent is entered with current_agent set to the first
\* pending task's agent, and after select_next_agent current_agent is None
\* exactly when no task is pending.
DispatchInTaskOrder ==
  /\ Dispatches <= Len(state.tasks)
  /\ \A i \in TaskIndexes : i <= Dispatches <=> state.tasks[i].status # PENDING
  /\ Dispatched <=> Dispatches >= 1
  /\ Dispatched => last_dispatch.agent_type = state.tasks[Dispatches].agent_type
  /\ pc = "process_with_agent"
       => /\ Dispatches < Len(state.tasks)
          /\ state.current_agent = state.tasks[Dispatches + 1].agent_type
  /\ pc \in {"process_with_agent", "finalize"}
       => (state.current_agent = None
             <=> \A i \in TaskIndexes : state.tasks[i].status # PENDING)

\* The third task is selected after the first two were attempted.
DispatchInTaskOrderWitness ==
  /\ pc = "process_with_agent"
  /\ Len(state.tasks) = 3
  /\ Dispatches = 2
  /\ state.tasks[1].status = FAILED
  /\ state.current_agent = state.tasks[3].agent_type

\* C16: a pending task has neither response nor error, a completed task has
\* a response and no error, a failed task has an error and no response.
TaskFieldsAgreeWithStatus ==
  \A i \in TaskIndexes :
    /\ state.tasks[i].status = PENDING
         => state.tasks[i].response = None /\ state.tasks[i].error = None
    /\ state.tasks[i].status = COMPLETED
         => state.tasks[i].response # None /\ state.tasks[i].error = None
    /\ state.tasks[i].status = FAILED
         => state.tasks[i].response = None /\ state.tasks[i].error # None

\* C17: no task is ever in_progress; a task leaves pending only in a
\* process_with_agent step, which takes it straight to completed or failed.
NeverInProgress ==
  /\ [](\A i \in TaskIndexes : state.tasks[i].status \in {PENDING, COMPLETED, FAILED})
  /\ [][\A i \in TaskIndexes :
          (state.tasks[i].status = PENDING /\ state'.tasks[i].status # PENDING)
            => /\ pc = "process_with_agent"
               /\ state'.tasks[i].status \in {COMPLETED, FAILED}]_vars

\* A run that is over with a completed and a failed task.
NeverInProgressWitness ==
  /\ pc = "responded"
  /\ Len(state.tasks) = 2
  /\ state.tasks[1].status = FAILED
  /\ state.tasks[2].status = COMPLETED

\* C18: final_output is empty until finalize has written it, finalize runs
\* at most once and exactly once in a run that reaches END, and the final
\* final_output is the single text that finalize put into its AI message.
FinalOutputWrittenOnce ==
  /\ pc \in Nodes => state.final_output = << >>
  /\ executions["finalize"] <= 1
  /\ pc = "END"
       => /\ executions["finalize"] = 1
          /\ Len(state.final_output) = 1
          /\ state.messages[Len(state.messages)] =
               [type |-> "ai", content |-> <<AnswerPrefix>> \o state.final_output]

\* A run that reached END with the aggregation model's text after six
\* steps that returned the whole state.
FinalOutputWrittenOnceWitness ==
  /\ pc = "END"
  /\ Len(state.tasks) = 2
  /\ state.final_output = <<"prose2">>
  /\ executions["select_next_agent"] = 3
====
